---- MODULE Spec2Model ----
(***************************************************************************)
(* A state-machine model of torch/distributions/wishart.py: the Wishart    *)
(* constructor, expand, the lazily cached derived matrices, the Bartlett   *)
(* sampler with its singular-sample correction loop, and log_prob.         *)
(*                                                                         *)
(* Tensors are modelled by their shape and a symbolic value.  Degrees of   *)
(* freedom are kept in half units (df2 = 2 * df) so that values strictly   *)
(* between p - 1 and p are representable with integers.                    *)
(***************************************************************************)
EXTENDS Integers, Sequences, FiniteSets, TLC

VARIABLES insts, arg_constraints_df, last, args, call, lp, cmp

vars == <<insts, arg_constraints_df, last, args, call, lp, cmp>>

----------------------------------------------------------------------------
(* Bounds of the model *)

\* largest matrix dimension p
MaxP == 3
\* largest size of the single batch axis
MaxN == 2
\* largest offset of a df argument above p - 1, in half units
MaxDfOff == 5
\* largest explicit max_try_correction argument
MaxTry == 2
\* largest size of the single sample axis
MaxDraws == 2
\* period of the random source's outcomes when two runs are compared
TapeLen == 2

----------------------------------------------------------------------------
(* Shapes and broadcasting (torch.Size of length at most one) *)

Dims == 1..MaxN

Shapes == {<<>>} \cup {<<n>> : n \in Dims}

Numel(shape) == IF shape = <<>> THEN 1 ELSE shape[1]

MaxOf(a, b) == IF a >= b THEN a ELSE b

\* torch.broadcast_shapes(a, b) is defined
BroadcastOK(a, b) ==
    \/ a = <<>>
    \/ b = <<>>
    \/ a[1] = b[1]
    \/ a[1] = 1
    \/ b[1] = 1

broadcast_shapes(a, b) ==
    IF a = <<>> THEN b
    ELSE IF b = <<>> THEN a
    ELSE <<MaxOf(a[1], b[1])>>

\* Tensor.expand(to) is defined for a tensor of shape from
ExpandOK(from, to) ==
    \/ from = <<>>
    \/ /\ to # <<>>
       /\ (from[1] = to[1] \/ from[1] = 1)

\* the elements of a tensor with values vals after expand(to)
ExpandVals(vals, to) ==
    [i \in 1..Numel(to) |-> IF Len(vals) = 1 THEN vals[1] ELSE vals[i]]

----------------------------------------------------------------------------
(* Matrix-valued tensors: batch shape plus a symbolic value.  The value is *)
(* the constructor argument it stems from and the operations applied to    *)
(* it, so that a broadcast copy and a recomputation are told apart.        *)

KindSeq == <<"covariance_matrix", "precision_matrix", "scale_tril">>

KindSet == {KindSeq[i] : i \in 1..3}

NoTensor == [has |-> FALSE, shape |-> <<>>, src |-> "none", ops |-> <<>>]

Mat(shape, src, ops) == [has |-> TRUE, shape |-> shape, src |-> src, ops |-> ops]

\* t.expand(shape + (-1, -1)): same storage, new batch shape
ExpandMat(t, shape) == [t EXCEPT !.shape = shape]

----------------------------------------------------------------------------
(* Wishart objects *)

\* identities of the Wishart objects a program holds: two are enough for a
\* source and its expanded copy, or for two separately constructed objects
ObjIds == {1, 2}

NoInst ==
    [live |-> FALSE, p |-> 0, batch_shape |-> <<>>, df_shape |-> <<>>,
     df |-> <<>>, validate_args |-> FALSE,
     unbroadcasted_scale_tril |-> NoTensor,
     covariance_matrix |-> NoTensor, precision_matrix |-> NoTensor,
     scale_tril |-> NoTensor, dist_chi2_df |-> <<>>, batch_dims |-> <<>>]

\* df of the Chi2 distribution, shape batch_shape + (p,): slot i is df - i
\* (half units: df2 - 2 * i), i counted from zero
Chi2Df(df, batch_shape, p) ==
    [b \in 1..Numel(batch_shape) |->
        [i \in 1..p |-> ExpandVals(df, batch_shape)[b] - 2 * (i - 1)]]

\* [-(x + 1) for x in range(len(batch_shape))]
BatchDims(batch_shape) == [x \in 1..Len(batch_shape) |-> -x]

----------------------------------------------------------------------------
(* Constructor arguments *)

Dimensions == 1..MaxP

\* shapes of the matrix argument: rank 0, 1, 2 (one matrix) or 3 (a batch)
ParamShapes ==
    {<<>>} \cup {<<p>> : p \in Dimensions} \cup {<<p, p>> : p \in Dimensions}
    \cup {<<n, p, p>> : n \in Dims, p \in Dimensions}

\* param.shape[-1], the dimension p
EventP(shape) == IF shape = <<>> THEN 1 ELSE shape[Len(shape)]

\* param.shape[:-2]
ParamLead(shape) == IF Len(shape) = 3 THEN <<shape[1]>> ELSE <<>>

\* df values tried for dimension p, in half units: p - 1, p - 1/2, p, ...
DfVals(p) == {2 * (p - 1) + k : k \in 0..MaxDfOff}

\* df is a Python number (df_number) or a tensor of shape df_shape
DfArgs(p) ==
    {[df_number |-> TRUE, df_shape |-> <<>>, df |-> <<v>>] : v \in DfVals(p)}
    \cup UNION {{[df_number |-> FALSE, df_shape |-> s, df |-> f] :
                    f \in [1..Numel(s) -> DfVals(p)]} : s \in Shapes}

\* ok: the matrix argument satisfies its constraint (positive definite, or
\* lower Cholesky for scale_tril); validate_args: the effective setting
CtorArgs(given, shape, ok, d, validate_args) ==
    [given |-> given, shape |-> shape, ok |-> ok, df_number |-> d.df_number,
     df_shape |-> d.df_shape, df |-> d.df, validate_args |-> validate_args]

\* next(p for p in (covariance_matrix, precision_matrix, scale_tril)
\*      if p is not None)
FirstGiven(given) ==
    KindSeq[CHOOSE i \in 1..3 :
                /\ KindSeq[i] \in given
                /\ \A j \in 1..(i - 1) : KindSeq[j] \notin given]

----------------------------------------------------------------------------
(* Wishart.__init__ *)

CtorFail(outcome, declared, warned, factorized) ==
    [outcome |-> outcome, inst |-> NoInst, declared |-> declared,
     warned |-> warned, factorized |-> factorized]

\* the canonical factor, as computed from the argument of the given kind
UnbroadcastedScaleTril(kind, lead) ==
    IF kind = "scale_tril" THEN Mat(lead, kind, <<>>)
    ELSE IF kind = "covariance_matrix" THEN Mat(lead, kind, <<"cholesky">>)
    ELSE Mat(lead, kind, <<"precision_to_scale_tril">>)

\* df.le(p - 1) misread as df.lt(p - 1)
DfAtMostStrict(dfv, p) == \E i \in 1..Len(dfv) : dfv[i] < 2 * (p - 1)

\* df.le(p - 1).any(), in half units
DfAtMost(dfv, p) == \E i \in 1..Len(dfv) : dfv[i] <= 2 * (p - 1)

\* df.lt(p).any(), in half units
DfLowerThan(dfv, p) == \E i \in 1..Len(dfv) : dfv[i] < 2 * p

\* the assertion misread as "at least one is given"
AtLeastOneGiven(given) == Cardinality(given) >= 1

\* (covariance_matrix is not None) + (scale_tril is not None)
\*     + (precision_matrix is not None) == 1
ExactlyOneGiven(given) == Cardinality(given) = 1

\* The constructor called with arguments a while the class-level
\* arg_constraints['df'] is greater_than(declared).  The result names the
\* outcome, the object built, the class-level constraint afterwards, whether
\* the low-df warning was emitted and whether a factorization was attempted.
Wishart_init(a, declared) ==
    IF ~ExactlyOneGiven(a.given)
    THEN CtorFail("AssertionError", declared, FALSE, FALSE)
    ELSE IF Len(a.shape) < 2
    THEN CtorFail("ValueError_dim", declared, FALSE, FALSE)
    ELSE
    LET kind == FirstGiven(a.given)
        p    == EventP(a.shape)
        lead == ParamLead(a.shape)
    IN
    IF ~a.df_number /\ ~BroadcastOK(lead, a.df_shape)
    THEN CtorFail("RuntimeError_broadcast", declared, FALSE, FALSE)
    ELSE
    LET batch_shape == IF a.df_number THEN lead
                       ELSE broadcast_shapes(lead, a.df_shape)
        df_shape    == IF a.df_number THEN <<>> ELSE batch_shape
        dfv         == IF a.df_number THEN a.df
                       ELSE ExpandVals(a.df, batch_shape)
    IN
    IF DfAtMost(dfv, p)
    THEN CtorFail("ValueError_df", declared, FALSE, FALSE)
    ELSE
    LET tightened == p - 1
        warned    == DfLowerThan(dfv, p)
        checked   == a.validate_args /\ kind # "scale_tril"
    IN
    IF a.validate_args
       /\ (~a.ok \/ \E i \in 1..Len(dfv) : dfv[i] <= 2 * tightened)
    THEN CtorFail("ValueError_validate", tightened, warned, checked)
    ELSE IF kind # "scale_tril" /\ ~a.ok
    THEN CtorFail("LinAlgError", tightened, warned, TRUE)
    ELSE
    [outcome |-> "ok",
     inst |-> [NoInst EXCEPT
                 !.live = TRUE, !.p = p, !.batch_shape = batch_shape,
                 !.df_shape = df_shape, !.df = dfv,
                 !.validate_args = a.validate_args,
                 !.unbroadcasted_scale_tril = UnbroadcastedScaleTril(kind, lead),
                 ![kind] = Mat(batch_shape, kind, <<>>),
                 !.dist_chi2_df = Chi2Df(dfv, batch_shape, p),
                 !.batch_dims = BatchDims(batch_shape)],
     declared |-> tightened, warned |-> warned,
     factorized |-> kind # "scale_tril"]

----------------------------------------------------------------------------
(* The lazily cached derived matrices (lazy_property) *)

\* what the property body computes from the canonical factor
Derived(inst, kind) ==
    LET L == inst.unbroadcasted_scale_tril IN
    IF kind = "scale_tril" THEN ExpandMat(L, inst.batch_shape)
    ELSE IF kind = "covariance_matrix"
    THEN Mat(inst.batch_shape, L.src, Append(L.ops, "LLt"))
    ELSE Mat(inst.batch_shape, L.src, Append(L.ops, "cholesky_solve"))

\* the value a read of the attribute returns
ReadValue(inst, kind) == IF inst[kind].has THEN inst[kind] ELSE Derived(inst, kind)

\* the object after the read: the value is stored on first access
LazyRead(inst, kind) == [inst EXCEPT ![kind] = ReadValue(inst, kind)]

----------------------------------------------------------------------------
(* Wishart.expand *)

\* the attribute recomputed from the canonical factor instead of copied
ExpandAttrRecomputed(self, kind, batch_shape) ==
    IF self[kind].has
    THEN Derived([self EXCEPT !.batch_shape = batch_shape], kind)
    ELSE NoTensor

\* 'kind' in self.__dict__ : copy by broadcast, otherwise leave unset
ExpandAttr(self, kind, batch_shape) ==
    IF self[kind].has THEN ExpandMat(self[kind], batch_shape) ELSE NoTensor

\* every Tensor.expand call of the method is defined
ExpandDefined(self, batch_shape) ==
    /\ ExpandOK(self.unbroadcasted_scale_tril.shape, batch_shape)
    /\ ExpandOK(self.df_shape, batch_shape)
    /\ \A k \in KindSet : self[k].has => ExpandOK(self[k].shape, batch_shape)

\* the new object
expand(self, batch_shape) ==
    LET df == ExpandVals(self.df, batch_shape) IN
    [NoInst EXCEPT
        !.live = TRUE, !.p = self.p, !.batch_shape = batch_shape,
        !.df_shape = batch_shape, !.df = df,
        !.validate_args = self.validate_args,
        !.unbroadcasted_scale_tril =
            ExpandMat(self.unbroadcasted_scale_tril, batch_shape),
        !.covariance_matrix = ExpandAttr(self, "covariance_matrix", batch_shape),
        !.scale_tril = ExpandAttr(self, "scale_tril", batch_shape),
        !.precision_matrix = ExpandAttr(self, "precision_matrix", batch_shape),
        !.dist_chi2_df = Chi2Df(df, batch_shape, self.p),
        !.batch_dims = BatchDims(batch_shape)]

----------------------------------------------------------------------------
(* Operations on the objects *)

Free == {o \in ObjIds : ~insts[o].live}

\* the cell a new object is bound to
NextFree == CHOOSE o \in Free : \A q \in Free : o <= q

NoLast ==
    [op |-> "none", outcome |-> "none", warned |-> FALSE,
     factorized |-> FALSE, obj |-> 0, src |-> 0]

\* Wishart(df, covariance_matrix, precision_matrix, scale_tril, validate_args)
DoConstruct(a) ==
    /\ Free # {}
    /\ LET r == Wishart_init(a, arg_constraints_df) IN
        /\ arg_constraints_df' = r.declared
        /\ insts' = IF r.outcome = "ok"
                    THEN [insts EXCEPT ![NextFree] = r.inst]
                    ELSE insts
        /\ last' = [op |-> "init", outcome |-> r.outcome, warned |-> r.warned,
                    factorized |-> r.factorized,
                    obj |-> IF r.outcome = "ok" THEN NextFree ELSE 0,
                    src |-> 0]
    /\ UNCHANGED <<args, call, lp, cmp>>

\* the argument lists the object-lifetime specification tries: one matrix
\* argument of rank two or three and of the smallest or the largest
\* dimension, validation left at its default (on), df a number, or a
\* tensor with a full batch axis beside an unbatched matrix, with values up
\* to p
CallerDfVals(p) == {v \in DfVals(p) : v <= 2 * p}

CallerDfArgs(sh) ==
    {[df_number |-> TRUE, df_shape |-> <<>>, df |-> <<v>>] :
        v \in CallerDfVals(EventP(sh))}
    \cup IF Len(sh) = 2
         THEN {[df_number |-> FALSE, df_shape |-> <<MaxN>>, df |-> f] :
                    f \in [1..MaxN -> CallerDfVals(EventP(sh))]}
         ELSE {}

CallerShapes ==
    {x \in ParamShapes : Len(x) >= 2 /\ EventP(x) \in {1, MaxP}}

Construct ==
    \E k \in KindSet, sh \in CallerShapes, ok \in BOOLEAN :
        \E d \in CallerDfArgs(sh) : DoConstruct(CtorArgs({k}, sh, ok, d, TRUE))

ConstructPending == DoConstruct(args)

\* self.expand(batch_shape)
Expand ==
    \E s \in ObjIds, batch_shape \in Shapes :
        /\ insts[s].live
        /\ Free # {}
        /\ IF ExpandDefined(insts[s], batch_shape)
           THEN /\ insts' = [insts EXCEPT
                                ![NextFree] = expand(insts[s], batch_shape)]
                /\ last' = [NoLast EXCEPT !.op = "expand", !.outcome = "ok",
                                          !.obj = NextFree, !.src = s]
           ELSE /\ insts' = insts
                /\ last' = [NoLast EXCEPT !.op = "expand",
                                          !.outcome = "RuntimeError_expand",
                                          !.src = s]
        /\ UNCHANGED <<arg_constraints_df, args, call, lp, cmp>>

\* a read of self.covariance_matrix, self.precision_matrix or self.scale_tril
Read ==
    \E s \in ObjIds, k \in KindSet :
        /\ insts[s].live
        /\ insts' = [insts EXCEPT ![s] = LazyRead(insts[s], k)]
        /\ UNCHANGED <<arg_constraints_df, last, args, call, lp, cmp>>

----------------------------------------------------------------------------
(* Wishart.rsample: the Bartlett draw and the singular-sample correction   *)
(*                                                                         *)
(* A sample has one slot per (draw, batch element).  A slot holds the      *)
(* matrix drawn for it: gen counts how often the slot was overwritten, pd  *)
(* is the outcome of support.check on the matrix, mixed marks a matrix     *)
(* assembled from columns of two draws.                                    *)

Draws(sample_shape) == 1..Numel(sample_shape)

Slots(sample_shape, batch_shape) ==
    Draws(sample_shape) \X (1..Numel(batch_shape))

SampleShapes == {<<>>} \cup {<<n>> : n \in 1..MaxDraws}

\* max_try_correction arguments; NoneArg stands for None
NoneArg == -1

TryArgs == {NoneArg} \cup 0..MaxTry

\* line 208: 3 if torch._C._get_tracing_state() else 10
DefaultTriesTracing == 3

DefaultTries == 10

ResolveTries(m, tracing) ==
    IF m = NoneArg
    THEN (IF tracing THEN DefaultTriesTracing ELSE DefaultTries)
    ELSE m

\* self._bartlett_sampling(shape): fresh matrices, pd as the random source
\* made them
Fresh(gen, pd) == [gen |-> gen, pd |-> pd, mixed |-> FALSE]

\* a matrix whose columns come from two different draws: not symmetric
Mixed(gen) == [gen |-> gen, pd |-> FALSE, mixed |-> TRUE]

\* self.support.check(sample), by slot
Check(sample) == [s \in DOMAIN sample |-> sample[s].pd]

\* t.amax(self._batch_dims): reduces the batch axis, one entry per draw
\* (with an empty batch shape there is one element per draw already)
Amax(t, sample_shape, batch_shape) ==
    [d \in Draws(sample_shape) |->
        \E b \in 1..Numel(batch_shape) : t[<<d, b>>]]

Negate(t) == [s \in DOMAIN t |-> ~t[s]]

\* lines 214-216: is_singular = self.support.check(sample), then amax
InitialMask(sample, sample_shape, batch_shape) ==
    Amax(Check(sample), sample_shape, batch_shape)

\* lines 224-226 and 237-239: is_singular = ~self.support.check(...), amax
SingularMask(sample, sample_shape, batch_shape) ==
    Amax(Negate(Check(sample)), sample_shape, batch_shape)

AnyTrue(mask) == \E d \in DOMAIN mask : mask[d]

\* range(max_try_correction) run once more than asked
LoopContinuesOnceMore(tries, max_try_correction) == tries <= max_try_correction

\* for _ in range(max_try_correction)
LoopContinues(tries, max_try_correction) == tries < max_try_correction

NoFrame ==
    [pc |-> "idle", obj |-> 0, tracing |-> FALSE, sample_shape |-> <<>>,
     max_try_correction |-> 0, raises |-> FALSE, sample |-> <<>>,
     is_singular |-> <<>>, tries |-> 0, warnings |-> 0,
     ever_singular |-> FALSE, redrawn |-> {}, failing |-> {},
     all_pd |-> TRUE, outcome |-> "none"]

Singular(sample) == {s \in DOMAIN sample : ~sample[s].pd}

\* lines 207-216, and the branch of lines 218/230-231 up to the first loop
\* test.  pd0 is the check outcome of each slot of the first draw; raises
\* says whether this torch build raises when a constraint is checked on a
\* tensor that is not a batch of square matrices.
EnterFrame(inst, o, sample_shape, m, tracing, raises, pd0) ==
    LET mtc    == ResolveTries(m, tracing)
        sample == [s \in Slots(sample_shape, inst.batch_shape) |->
                      Fresh(0, pd0[s])]
        mask   == InitialMask(sample, sample_shape, inst.batch_shape)
        warn   == ~tracing /\ AnyTrue(mask)
        loops  == (tracing \/ AnyTrue(mask)) /\ LoopContinues(0, mtc)
    IN  [NoFrame EXCEPT
            !.pc = IF ~loops THEN "ret" ELSE IF tracing THEN "trace" ELSE "eager",
            !.obj = o, !.tracing = tracing, !.sample_shape = sample_shape,
            !.max_try_correction = mtc, !.raises = raises,
            !.sample = sample, !.is_singular = mask,
            !.warnings = IF warn THEN 1 ELSE 0,
            !.ever_singular = Singular(sample) # {},
            !.outcome = "ok"]

\* how torch.where(is_singular, sample_new, sample) broadcasts the mask of
\* shape sample_shape against tensors of shape sample_shape + batch_shape
\* + (p, p): the mask axis is aligned with the last matrix axis
WhereKind(sample_shape, p) ==
    IF sample_shape = <<>> \/ sample_shape = <<1>> THEN "by_draw"
    ELSE IF sample_shape[1] = p THEN "by_column"
    ELSE IF p = 1 THEN "misshapen"
    ELSE "error"

\* lines 220-226, one iteration of the loop run under tracing; new is the
\* check outcome of each slot of sample_new
TraceBody(f, inst, new) ==
    LET kind    == WhereKind(f.sample_shape, inst.p)
        slots   == DOMAIN f.sample
        tries   == f.tries + 1
        uniform == (\A d \in DOMAIN f.is_singular : f.is_singular[d])
                   \/ ~AnyTrue(f.is_singular)
        taken   == IF kind = "by_draw" \/ (kind = "by_column" /\ uniform)
                   THEN {s \in slots : f.is_singular[
                            IF kind = "by_draw" THEN s[1] ELSE 1]}
                   ELSE slots
        sample  == [s \in slots |->
                      IF s \notin taken THEN f.sample[s]
                      ELSE IF f.outcome = "misshapen"
                              \/ kind = "misshapen"
                              \/ (kind = "by_column" /\ ~uniform)
                      THEN Mixed(f.sample[s].gen + 1)
                      ELSE Fresh(f.sample[s].gen + 1, new[s])]
        mask    == SingularMask(sample, f.sample_shape, inst.batch_shape)
        base    == [f EXCEPT !.tries = tries, !.failing = Singular(f.sample),
                             !.all_pd = f.all_pd /\ \A s \in slots : new[s]]
    IN  IF kind = "error" \/ (kind = "misshapen" /\ f.raises)
        THEN [base EXCEPT !.pc = "raised", !.outcome = "RuntimeError",
                          !.redrawn = {}]
        ELSE [base EXCEPT
                !.sample = sample, !.is_singular = mask,
                !.redrawn = taken,
                !.ever_singular = f.ever_singular \/ Singular(sample) # {},
                !.outcome = IF kind = "misshapen" THEN "misshapen" ELSE "ok",
                !.pc = IF LoopContinues(tries, f.max_try_correction)
                       THEN "trace" ELSE "ret"]

\* lines 233-243, one iteration of the loop run with data-dependent control
\* flow; new is the check outcome of each slot of sample_new, which has one
\* draw per entry of is_singular that is set
EagerBody(f, inst, new) ==
    LET slots   == DOMAIN f.sample
        tries   == f.tries + 1
        taken   == {s \in slots : f.is_singular[s[1]]}
        sample  == [s \in slots |->
                      IF s \in taken THEN Fresh(f.sample[s].gen + 1, new[s])
                      ELSE f.sample[s]]
        mask    == [d \in DOMAIN f.is_singular |->
                      IF f.is_singular[d]
                      THEN \E b \in 1..Numel(inst.batch_shape) : ~new[<<d, b>>]
                      ELSE f.is_singular[d]]
    IN  [f EXCEPT
            !.tries = tries, !.failing = Singular(f.sample),
            !.all_pd = f.all_pd /\ \A s \in taken : new[s],
            !.sample = sample, !.is_singular = mask, !.redrawn = taken,
            !.ever_singular = f.ever_singular \/ \E s \in taken : ~new[s],
            !.pc = IF AnyTrue(mask) /\ LoopContinues(tries, f.max_try_correction)
                   THEN "eager" ELSE "ret"]

----------------------------------------------------------------------------
(* Wishart.log_prob *)

\* self._validate_sample(value) raising although validation is off
SampleRejectedAlways(inst, v, misshapen) == ~v.pd \/ misshapen

\* line 248-249: the value is checked against the support when validation
\* is on, and the call raises when the check fails
SampleRejected(inst, v, misshapen) ==
    inst.validate_args /\ (~v.pd \/ misshapen)

\* line 256: (nu - p - 1) / 2 * slogdet(value).logabsdet, the only term that
\* can be infinite; df2 is nu in half units
LogDetTerm(df2, p, det_zero) ==
    IF ~det_zero THEN "finite"
    ELSE IF df2 > 2 * (p + 1) THEN "-inf"
    ELSE IF df2 = 2 * (p + 1) THEN "nan"
    ELSE "+inf"

NoLp ==
    [called |-> FALSE, obj |-> 0, value |-> Fresh(0, TRUE),
     det_zero |-> FALSE, misshapen |-> FALSE, outcome |-> "none",
     result |-> <<>>]

\* self.log_prob(value) for one matrix of a returned sample; det_zero says
\* whether its determinant is exactly zero
log_prob(o, inst, v, det_zero, misshapen) ==
    [NoLp EXCEPT
        !.called = TRUE, !.obj = o, !.value = v, !.det_zero = det_zero,
        !.misshapen = misshapen,
        !.outcome = IF SampleRejected(inst, v, misshapen) THEN "ValueError"
                    ELSE IF misshapen THEN "RuntimeError"
                    ELSE "ok",
        !.result = IF SampleRejected(inst, v, misshapen) \/ misshapen
                   THEN <<>>
                   ELSE [b \in 1..Len(inst.df) |->
                            LogDetTerm(inst.df[b], inst.p, det_zero)]]

----------------------------------------------------------------------------
(* The two loops run on the same random outcomes *)

\* the outcomes the random source gives each slot: the k-th matrix drawn
\* for slot s passes the check iff tape[s][k], k taken modulo TapeLen
Tapes(slots) == [slots -> [1..TapeLen -> BOOLEAN]]

\* the check outcomes of sample_new for a frame: each slot sees its next draw
NextDraw(tape, f) ==
    [s \in DOMAIN f.sample |-> tape[s][(f.sample[s].gen % TapeLen) + 1]]

\* the loop of the frame run to its end
RECURSIVE RunLoop(_, _, _)
RunLoop(f, inst, tape) ==
    IF f.pc = "trace"
    THEN RunLoop(TraceBody(f, inst, NextDraw(tape, f)), inst, tape)
    ELSE IF f.pc = "eager"
    THEN RunLoop(EagerBody(f, inst, NextDraw(tape, f)), inst, tape)
    ELSE f

NoCmp ==
    [sample_shape |-> <<>>, m |-> 0, pd0 |-> <<>>, tape |-> <<>>,
     traced |-> NoFrame, eager |-> NoFrame]

\* rsample called under tracing, or not, on the compared inputs
RunCompared(tracing) ==
    RunLoop(EnterFrame(insts[1], 1, cmp.sample_shape, cmp.m, tracing, FALSE,
                       cmp.pd0),
            insts[1], cmp.tape)

RunTraced ==
    /\ cmp.traced.pc = "idle"
    /\ cmp' = [cmp EXCEPT !.traced = RunCompared(TRUE)]
    /\ UNCHANGED <<insts, arg_constraints_df, last, args, call, lp>>

RunEager ==
    /\ cmp.eager.pc = "idle"
    /\ cmp' = [cmp EXCEPT !.eager = RunCompared(FALSE)]
    /\ UNCHANGED <<insts, arg_constraints_df, last, args, call, lp>>

----------------------------------------------------------------------------
(* Sampling steps *)

\* self.rsample(sample_shape, max_try_correction) is entered
Rsample ==
    \E o \in ObjIds, sample_shape \in SampleShapes, m \in TryArgs,
       tracing \in BOOLEAN :
        /\ call.pc = "idle"
        /\ insts[o].live
        /\ \E pd0 \in [Slots(sample_shape, insts[o].batch_shape) -> BOOLEAN],
              raises \in IF tracing
                            /\ WhereKind(sample_shape, insts[o].p) = "misshapen"
                         THEN BOOLEAN ELSE {FALSE} :
                call' = EnterFrame(insts[o], o, sample_shape, m, tracing,
                                   raises, pd0)
        /\ lp' = NoLp
        /\ UNCHANGED <<insts, arg_constraints_df, last, args, cmp>>

\* one pass of the loop of lines 220-226
TraceIteration ==
    /\ call.pc = "trace"
    /\ \E new \in [DOMAIN call.sample -> BOOLEAN] :
            call' = TraceBody(call, insts[call.obj], new)
    /\ UNCHANGED <<insts, arg_constraints_df, last, args, lp, cmp>>

\* one pass of the loop of lines 233-243
EagerIteration ==
    /\ call.pc = "eager"
    /\ \E new \in [{s \in DOMAIN call.sample : call.is_singular[s[1]]}
                        -> BOOLEAN] :
            call' = EagerBody(call, insts[call.obj], new)
    /\ UNCHANGED <<insts, arg_constraints_df, last, args, lp, cmp>>

\* line 245, or the exception leaving the call; the caller drops the result
Return ==
    /\ call.pc \in {"ret", "raised"}
    /\ call' = NoFrame
    /\ UNCHANGED <<insts, arg_constraints_df, last, args, lp, cmp>>

\* line 245, and the caller passes one matrix of the sample to log_prob
LogProb ==
    /\ call.pc = "ret"
    /\ \E s \in DOMAIN call.sample, det_zero \in BOOLEAN :
        /\ det_zero => ~call.sample[s].pd
        /\ lp' = log_prob(call.obj, insts[call.obj], call.sample[s], det_zero,
                          call.outcome = "misshapen")
    /\ call' = NoFrame
    /\ UNCHANGED <<insts, arg_constraints_df, last, args, cmp>>

----------------------------------------------------------------------------
(* Specifications *)

\* line 55: 'df': constraints.greater_than(0)
InitialDfConstraint == 0

NoArgs ==
    CtorArgs({}, <<>>, FALSE,
             [df_number |-> TRUE, df_shape |-> <<>>, df |-> <<0>>], FALSE)

Init ==
    /\ insts = [o \in ObjIds |-> NoInst]
    /\ arg_constraints_df = InitialDfConstraint
    /\ last = NoLast
    /\ args = NoArgs
    /\ call = NoFrame
    /\ lp = NoLp
    /\ cmp = NoCmp

Next == Construct \/ Expand \/ Read

\* objects are constructed, read and expanded
Spec == Init /\ [][Next]_vars

InitCtor ==
    /\ insts = [o \in ObjIds |-> NoInst]
    /\ arg_constraints_df = InitialDfConstraint
    /\ last = NoLast
    /\ \E given \in SUBSET KindSet, shape \in ParamShapes :
        \E ok \in BOOLEAN, validate_args \in BOOLEAN :
            \E d \in DfArgs(EventP(shape)) :
                args = CtorArgs(given, shape, ok, d, validate_args)
    /\ call = NoFrame
    /\ lp = NoLp
    /\ cmp = NoCmp

NextCtor == ConstructPending

\* the constructor applied to every argument list
SpecCtor == InitCtor /\ [][NextCtor]_vars

\* the object built by the constructor call with arguments a
InitWith(a) ==
    LET r == Wishart_init(a, InitialDfConstraint) IN
    /\ r.outcome = "ok"
    /\ insts = [o \in ObjIds |-> IF o = 1 THEN r.inst ELSE NoInst]
    /\ arg_constraints_df = r.declared
    /\ last = [op |-> "init", outcome |-> r.outcome, warned |-> r.warned,
               factorized |-> r.factorized, obj |-> 1, src |-> 0]
    /\ args = a
    /\ call = NoFrame
    /\ lp = NoLp
    /\ cmp = NoCmp

\* objects sampled from: every dimension and batch shape, df = p
SampleArgs ==
    {CtorArgs({"scale_tril"}, sh, TRUE,
              [df_number |-> TRUE, df_shape |-> <<>>,
               df |-> <<2 * EventP(sh)>>], TRUE) :
        sh \in {x \in ParamShapes : Len(x) >= 2}}

InitSample == \E a \in SampleArgs : InitWith(a)

NextSample == Rsample \/ TraceIteration \/ EagerIteration \/ Return \/ LogProb

\* rsample is called on one object, again and again
SpecSample == InitSample /\ [][NextSample]_vars

\* objects whose samples are passed to log_prob: the largest dimension, df
\* a number or a batch of values, each below p or at least p + 1, validation
\* on or off
LogProbDfArgs ==
    {d \in DfArgs(MaxP) :
        /\ d.df_number \/ d.df_shape = <<MaxN>>
        /\ \A i \in DOMAIN d.df :
            /\ d.df[i] > 2 * (MaxP - 1)
            /\ d.df[i] < 2 * MaxP \/ d.df[i] >= 2 * (MaxP + 1)}

LogProbArgs ==
    {CtorArgs({"scale_tril"}, <<MaxP, MaxP>>, TRUE, d, v) :
        d \in LogProbDfArgs, v \in BOOLEAN}

InitLogProb == \E a \in LogProbArgs : InitWith(a)

\* rsample and log_prob on objects of every df and validation setting
SpecLogProb == InitLogProb /\ [][NextSample]_vars

InitEquiv ==
    \E a \in SampleArgs :
        /\ EventP(a.shape) = MaxP
        /\ Len(a.shape) = 2 \/ a.shape[1] = MaxN
        /\ LET r == Wishart_init(a, InitialDfConstraint) IN
            /\ insts = [o \in ObjIds |-> IF o = 1 THEN r.inst ELSE NoInst]
            /\ arg_constraints_df = r.declared
            /\ \E sample_shape \in SampleShapes, m \in 0..MaxTry :
                \E pd0 \in [Slots(sample_shape, r.inst.batch_shape) -> BOOLEAN],
                   tape \in Tapes(Slots(sample_shape, r.inst.batch_shape)) :
                    cmp = [sample_shape |-> sample_shape, m |-> m,
                           pd0 |-> pd0, tape |-> tape,
                           traced |-> NoFrame, eager |-> NoFrame]
        /\ last = NoLast
        /\ args = a
        /\ call = NoFrame
        /\ lp = NoLp

NextEquiv == RunTraced \/ RunEager

\* both loops applied to the same first draw and the same redraw outcomes
SpecEquiv == InitEquiv /\ [][NextEquiv]_vars


----------------------------------------------------------------------------
(* Properties of the constructor (SpecCtor) *)

Live == {o \in ObjIds : insts[o].live}

ArgP == EventP(args.shape)

\* one matrix argument of rank >= 2 that satisfies its constraint, and a df
\* that broadcasts against the argument's leading shape
WellFormedCall ==
    /\ Cardinality(args.given) = 1
    /\ Len(args.shape) >= 2
    /\ args.ok
    /\ (args.df_number \/ BroadcastOK(ParamLead(args.shape), args.df_shape))

ArgSomeDfAtMostPMinus1 == \E i \in DOMAIN args.df : args.df[i] <= 2 * (ArgP - 1)

ArgSomeDfBelowP == \E i \in DOMAIN args.df : args.df[i] < 2 * ArgP

\* C5: a well-formed constructor call fails with the df argument error and
\* builds no object when some element of df is <= p - 1; otherwise it
\* succeeds, and it warns about low df exactly when some element is < p.
C5_DfBoundary ==
    (last.op = "init" /\ WellFormedCall) =>
        IF ArgSomeDfAtMostPMinus1
        THEN last.outcome = "ValueError_df" /\ Live = {} /\ ~last.warned
        ELSE /\ last.outcome = "ok"
             /\ last.obj \in Live
             /\ (last.warned <=> ArgSomeDfBelowP)

\* a batch with one element below p and one at p was accepted with a warning
C5_Witness ==
    /\ last.op = "init" /\ WellFormedCall
    /\ last.outcome = "ok" /\ last.warned
    /\ \E i \in DOMAIN args.df : args.df[i] >= 2 * ArgP
    /\ \E i \in DOMAIN args.df : args.df[i] = 2 * ArgP - 1

\* C6: a call that does not give exactly one of the three matrices, or gives
\* one of rank < 2, fails with an argument error, builds no object, and
\* fails before any factorization is attempted.
C6_ArgumentCheck ==
    (last.op = "init"
     /\ (Cardinality(args.given) # 1 \/ Len(args.shape) < 2)) =>
        /\ last.outcome = (IF Cardinality(args.given) # 1
                           THEN "AssertionError" ELSE "ValueError_dim")
        /\ Live = {}
        /\ ~last.factorized

\* two otherwise valid matrices were given and the call was rejected
C6_Witness ==
    /\ last.op = "init"
    /\ Cardinality(args.given) = 2
    /\ Len(args.shape) >= 2 /\ args.ok
    /\ last.outcome = "AssertionError"

----------------------------------------------------------------------------
(* Properties of the object lifetime (Spec) *)

Materialized(inst) == {k \in KindSet : inst[k].has}

\* this step is a successful expand: a new object appears
ExpandStep ==
    /\ last'.op = "expand" /\ last'.outcome = "ok"
    /\ ~insts[last'.obj].live /\ insts'[last'.obj].live

\* C7: expand leaves the source object as it was; the new object holds
\* exactly the derived matrices the source had stored, each the source's
\* stored value broadcast to the new batch shape, and its chi-squared df
\* vector has slot i equal to df - i for every element of the new batch.
C7_ExpandFrame ==
    [][ExpandStep =>
        LET S == insts[last'.src]
            N == insts'[last'.obj]
        IN  /\ insts'[last'.src] = S
            /\ Materialized(N) = Materialized(S)
            /\ \A k \in Materialized(S) :
                    /\ N[k].src = S[k].src
                    /\ N[k].ops = S[k].ops
                    /\ N[k].shape = N.batch_shape
            /\ N.p = S.p
            /\ Len(N.df) = Numel(N.batch_shape)
            /\ \A b \in 1..Numel(N.batch_shape) :
                    /\ N.df[b] = (IF Len(S.df) = 1 THEN S.df[1] ELSE S.df[b])
                    /\ \A i \in 1..N.p :
                            N.dist_chi2_df[b][i] = N.df[b] - 2 * (i - 1)
    ]_vars

\* an object built from a covariance matrix, with its precision read since,
\* was expanded from no batch axis to a full one
C7_Witness ==
    /\ last.op = "expand" /\ last.outcome = "ok"
    /\ insts[last.obj].live
    /\ insts[last.src].batch_shape = <<>>
    /\ insts[last.obj].batch_shape = <<MaxN>>
    /\ insts[last.obj].unbroadcasted_scale_tril.src = "covariance_matrix"
    /\ Materialized(insts[last.obj]) = {"covariance_matrix", "precision_matrix"}

\* what a caller can observe of an object: its parameters, shapes, the
\* values its three matrix attributes read as, and the constraint it
\* declares for df (arg_constraints['df'], greater_than(declared))
Observable(inst, declared) ==
    [p |-> inst.p, batch_shape |-> inst.batch_shape, df |-> inst.df,
     df_shape |-> inst.df_shape, validate_args |-> inst.validate_args,
     unbroadcasted_scale_tril |-> inst.unbroadcasted_scale_tril,
     dist_chi2_df |-> inst.dist_chi2_df,
     values |-> [k \in KindSet |-> ReadValue(inst, k)],
     df_constraint |-> declared]

\* C10: no operation changes what is observable of an existing object, and
\* every object keeps declaring df > p - 1 for its own p.
C10_NoSharedState ==
    [][\A o \in ObjIds : insts[o].live =>
            /\ insts'[o].live
            /\ Observable(insts'[o], arg_constraints_df')
                   = Observable(insts[o], arg_constraints_df)
            /\ arg_constraints_df' = insts'[o].p - 1
    ]_vars

\* two objects of different dimension exist
C10_Witness ==
    /\ insts[1].live /\ insts[2].live
    /\ insts[1].p # insts[2].p

----------------------------------------------------------------------------
(* Properties of the sampler (SpecSample, SpecLogProb, SpecEquiv) *)

InCall == call.pc # "idle"

\* C1: in every correction attempt the slots overwritten are exactly the
\* slots whose value failed the positive-definiteness check.
C1_OnlySingularRedrawn ==
    (InCall /\ call.tries >= 1 /\ call.outcome = "ok") =>
        call.redrawn = call.failing

\* a correction attempt was made on a draw with a passing and a failing slot
C1_Witness ==
    /\ InCall /\ call.tries >= 1 /\ call.outcome = "ok"
    /\ call.failing # {} /\ call.failing # DOMAIN call.sample

\* C2: with max_try_correction >= 1, a slot that is singular when rsample
\* returns was redrawn max_try_correction times; if every redraw passed the
\* check, no slot is singular on return.
C2_SingularRedrawnUntilPass ==
    (call.pc = "ret" /\ call.outcome = "ok" /\ call.max_try_correction >= 1) =>
        /\ \A s \in Singular(call.sample) :
                call.sample[s].gen = call.max_try_correction
        /\ call.all_pd => Singular(call.sample) = {}

\* rsample returns after a first draw with a failing slot
C2_Witness ==
    /\ call.pc = "ret" /\ call.outcome = "ok" /\ call.max_try_correction >= 1
    /\ \E s \in DOMAIN call.sample : call.sample[s].gen = 0 /\ ~call.sample[s].pd

\* C3: rsample warns at most once, and it warns iff some slot failed the
\* positive-definiteness check during the call.
C3_WarnsIffSingular ==
    /\ call.warnings <= 1
    /\ (call.pc = "ret" /\ call.outcome = "ok") =>
            (call.warnings = 1 <=> call.ever_singular)

\* rsample returns having found a failing slot
C3_Witness == call.pc = "ret" /\ call.outcome = "ok" /\ call.ever_singular

\* C4: rsample makes at most max_try_correction redraw rounds in either
\* mode; with max_try_correction = 0 it makes none and returns the first
\* draw, singular slots included.
C4_BoundedRedraws ==
    InCall =>
        /\ call.tries <= call.max_try_correction
        /\ \A s \in DOMAIN call.sample : call.sample[s].gen <= call.tries
        /\ call.max_try_correction = 0 =>
                /\ call.pc = "ret"
                /\ call.tries = 0
                /\ \A s \in DOMAIN call.sample : call.sample[s].gen = 0

\* under tracing, with max_try_correction = 0, a first draw with a failing
\* slot is returned; and a call ran all the rounds it was allowed
C4_Witness ==
    /\ call.pc = "ret" /\ call.tracing
    /\ call.max_try_correction = 0
    /\ Singular(call.sample) # {}

\* C8 as stated: log_prob of a singular sample is -inf and raises nothing,
\* whatever the validation setting.
C8_SingularLogProbNegInf ==
    (lp.called /\ ~lp.value.pd /\ ~lp.misshapen) =>
        /\ lp.outcome = "ok"
        /\ \A b \in DOMAIN lp.result : lp.result[b] = "-inf"

\* C8 amended: log_prob of a singular sample raises iff validation is on;
\* with validation off it returns, and the result of a batch element is
\* -inf exactly when the sample's determinant is zero and df > p + 1.
C8_SingularLogProb ==
    (lp.called /\ ~lp.value.pd /\ ~lp.misshapen) =>
        LET inst == insts[lp.obj] IN
        /\ lp.outcome = "ValueError" <=> inst.validate_args
        /\ ~inst.validate_args =>
            /\ lp.outcome = "ok"
            /\ DOMAIN lp.result = DOMAIN inst.df
            /\ \A b \in DOMAIN lp.result :
                    lp.result[b] = "-inf" <=>
                        (lp.det_zero /\ inst.df[b] > 2 * (inst.p + 1))

\* a singular sample with zero determinant, validation off, one batch
\* element with df > p + 1 and one with df < p + 1
C8_Witness ==
    /\ lp.called /\ ~lp.value.pd /\ ~lp.misshapen /\ lp.det_zero
    /\ ~insts[lp.obj].validate_args
    /\ \E b \in DOMAIN lp.result : lp.result[b] = "-inf"
    /\ \E b \in DOMAIN lp.result : lp.result[b] = "+inf"

BothRun == cmp.traced.pc # "idle" /\ cmp.eager.pc # "idle"

\* C9: on the same first draw and the same redraw outcomes, the loop run
\* under tracing and the loop with early exit return the same value in
\* every slot, hence the same singular slots.  Stated for the sample shapes
\* on which torch.where selects by draw, () and (1,).
C9_LoopsEquivalent ==
    (BothRun /\ WhereKind(cmp.sample_shape, insts[1].p) = "by_draw") =>
        /\ cmp.traced.outcome = cmp.eager.outcome
        /\ cmp.traced.sample = cmp.eager.sample
        /\ Singular(cmp.traced.sample) = Singular(cmp.eager.sample)

\* both loops ran on a first draw with a failing slot
C9_Witness ==
    /\ BothRun
    /\ \E s \in DOMAIN cmp.pd0 : ~cmp.pd0[s]
    /\ cmp.traced.max_try_correction >= 2

====
